---- MODULE Spec2Model ----
(***************************************************************************)
(* A model of samples/sample.py: the execution of the module body (the     *)
(* six function definitions and the module-level counting loop) and the    *)
(* calls a client can make once the module is loaded.                      *)
(*                                                                         *)
(* Python values are modelled as tagged records, strings as sequences of   *)
(* one-character strings, return values by their Python spelling ("None",  *)
(* "True", "False").                                                       *)
(***************************************************************************)
EXTENDS Integers, Sequences, FiniteSets, TLC

VARIABLES
    pc,       \* the statement of the module body that runs next
    globals,  \* the module namespace: bound name -> value
    it,       \* the range iterator of the module-level loop: next value it yields
    stdout,   \* the lines printed so far
    last,     \* the most recent call: operation, argument, return value, exception
    earlier   \* observer: some call made before `last`, remembered for comparison

vars == <<pc, globals, it, stdout, last, earlier>>

----------------------------------------------------------------------------
(* Bounds of the model *)

\* years are drawn from -MaxYear..MaxYear, the centuries from
\* -MaxCentury*100 to MaxCentury*100, and the years the specification tests
MaxYear == 4
MaxCentury == 4
\* a username has at most MaxLen characters
MaxLen == 2
\* a name passed to greet has at most MaxNameLen characters
MaxNameLen == 1
\* greet is called while fewer than MaxOut lines were printed
MaxOut == 1

(* Program constants *)

\* sample.py line 28: range(1000000)
RangeStop == 1000000

----------------------------------------------------------------------------
(* Python values *)

PyNone == [tag |-> "NoneType", n |-> 0, chars |-> <<>>]
PyStr(s) == [tag |-> "str", n |-> 0, chars |-> s]
PyInt(k) == [tag |-> "int", n |-> k, chars |-> <<>>]
NoArg == [tag |-> "noarg", n |-> 0, chars |-> <<>>]

\* the spelling of a bool result
PyBool(b) == IF b THEN "True" ELSE "False"

\* bool(v): None is falsy, a string is falsy exactly when its length is 0,
\* an integer exactly when it is 0
Truthy(v) ==
    CASE v.tag = "NoneType" -> FALSE
      [] v.tag = "str" -> Len(v.chars) # 0
      [] v.tag = "int" -> v.n # 0

\* a % b for b > 0: the remainder of floor division, never negative
PyMod(a, b) == a - b * (a \div b)

\* format(v, "") as the f-string of greet applies it
PyFormat(v) ==
    CASE v.tag = "str" -> v.chars
      [] v.tag = "NoneType" -> <<"N", "o", "n", "e">>

NoExc == [type |-> "", msg |-> ""]
NoCall == [op |-> "", arg |-> NoArg, ret |-> "", exc |-> NoExc]

----------------------------------------------------------------------------
(* Inputs *)

Chars == {" ", "a"}

RECURSIVE StringsOfLen(_)
StringsOfLen(k) ==
    IF k = 0 THEN {<<>>}
    ELSE {Append(s, c) : s \in StringsOfLen(k - 1), c \in Chars}

Strings == UNION {StringsOfLen(k) : k \in 0..MaxLen}

\* a username is a string, or absent
Usernames == {PyNone} \cup {PyStr(s) : s \in Strings}
Names == {PyStr(s) : s \in UNION {StringsOfLen(k) : k \in 0..MaxNameLen}}

TestYears == {1900, 2000, 2023, 2024}
Years ==
    (-MaxYear..MaxYear) \cup {100 * c : c \in -MaxCentury..MaxCentury} \cup TestYears

----------------------------------------------------------------------------
(* The functions of the module *)

\* what the code would do if it rejected only an absent username
validate_none_only(username) ==
    IF username.tag = "NoneType"
    THEN [ret |-> "", exc |-> [type |-> "ValueError", msg |-> "Username required"]]
    ELSE [ret |-> "None", exc |-> NoExc]

\* what the code would do if it tested `not username.strip()`
validate_stripped(username) ==
    IF username.tag = "NoneType" \/ \A k \in 1..Len(username.chars) : username.chars[k] = " "
    THEN [ret |-> "", exc |-> [type |-> "ValueError", msg |-> "Username required"]]
    ELSE [ret |-> "None", exc |-> NoExc]

\* def validate(username): if not username: raise ValueError("Username required")
validate(username) ==
    IF ~Truthy(username)
    THEN [ret |-> "", exc |-> [type |-> "ValueError", msg |-> "Username required"]]
    ELSE [ret |-> "None", exc |-> NoExc]

\* what the code would do without the exception for multiples of 400
is_leap_no_400(year) ==
    PyMod(year, 4) = 0 /\ PyMod(year, 100) # 0

\* what the code would do if it tested divisibility by 4 alone
is_leap_div_4(year) ==
    PyMod(year, 4) = 0

\* what the code would do if it treated years before 1 as common years
is_leap_positive_only(year) ==
    year > 0 /\ PyMod(year, 4) = 0 /\ (PyMod(year, 100) # 0 \/ PyMod(year, 400) = 0)

\* def is_leap(year)
is_leap(year) ==
    PyMod(year, 4) = 0 /\ (PyMod(year, 100) # 0 \/ PyMod(year, 400) = 0)

\* def fake_auth(): return True
fake_auth == TRUE

\* def old_auth(): return False
old_auth == FALSE

\* the line greet prints: f"Hello, {name}"
GreetLine(name) == <<"H", "e", "l", "l", "o", ",", " ">> \o PyFormat(name)

----------------------------------------------------------------------------
(* Execution of the module body *)

FunctionNames == {"login", "validate", "fake_auth", "is_leap", "greet", "old_auth"}

\* a def statement binds the name in the module namespace
Bind(name, value) ==
    [k \in DOMAIN globals \cup {name} |-> IF k = name THEN value ELSE globals[k]]

Def(at, name, next) ==
    /\ pc = at
    /\ globals' = Bind(name, "function")
    /\ pc' = next
    /\ UNCHANGED <<it, stdout, last, earlier>>

DefLogin == Def("def_login", "login", "def_validate")
DefValidate == Def("def_validate", "validate", "def_fake_auth")
DefFakeAuth == Def("def_fake_auth", "fake_auth", "def_is_leap")
DefIsLeap == Def("def_is_leap", "is_leap", "def_greet")
DefGreet == Def("def_greet", "greet", "for")

\* what the loop would do over range(1, 1000001)
ForNextFromOne ==
    /\ pc = "for"
    /\ it < RangeStop
    /\ globals' = Bind("i", it + 1)
    /\ it' = it + 1
    /\ UNCHANGED <<pc, stdout, last, earlier>>

\* for i in range(1000000): pass -- one iteration: the iterator yields its next
\* value, which is bound to i; the body does nothing
ForNext ==
    /\ pc = "for"
    /\ it < RangeStop
    /\ globals' = Bind("i", it)
    /\ it' = it + 1
    /\ UNCHANGED <<pc, stdout, last, earlier>>

\* the iterator is exhausted: the loop ends, i keeps its last value
ForExit ==
    /\ pc = "for"
    /\ ~(it < RangeStop)
    /\ pc' = "def_old_auth"
    /\ UNCHANGED <<globals, it, stdout, last, earlier>>

DefOldAuth == Def("def_old_auth", "old_auth", "loaded")

LoadNext ==
    \/ DefLogin
    \/ DefValidate
    \/ DefFakeAuth
    \/ DefIsLeap
    \/ DefGreet
    \/ ForNext
    \/ ForExit
    \/ DefOldAuth

\* the state in which the interpreter starts the module body
LoadInit ==
    /\ pc = "def_login"
    /\ globals = [k \in {} |-> 0]
    /\ it = 0
    /\ stdout = <<>>
    /\ last = NoCall
    /\ earlier = NoCall

\* the module namespace once the body has run
LoadedGlobals ==
    [k \in FunctionNames \cup {"i"} |-> IF k = "i" THEN RangeStop - 1 ELSE "function"]

\* the state after the import
Loaded ==
    /\ pc = "loaded"
    /\ globals = LoadedGlobals
    /\ it = RangeStop
    /\ stdout = <<>>
    /\ last = NoCall
    /\ earlier = NoCall

----------------------------------------------------------------------------
(* Calls *)

\* a client calls a function by its name in the loaded module
Callable(name) == pc = "loaded" /\ name \in DOMAIN globals

\* the observer keeps the call it remembered or remembers the one before this
Observe == earlier' \in {earlier, last}

\* what login would do if it raised, as an unimplemented stub may
CallLoginNotImplemented ==
    /\ Callable("login")
    /\ last' = [op |-> "login", arg |-> NoArg, ret |-> "",
                exc |-> [type |-> "NotImplementedError", msg |-> ""]]
    /\ Observe
    /\ UNCHANGED <<pc, globals, it, stdout>>

\* what login would do if it recorded a session in a module-level variable
CallLoginSetsGlobal ==
    /\ Callable("login")
    /\ globals' = Bind("logged_in", "True")
    /\ last' = [op |-> "login", arg |-> NoArg, ret |-> "None", exc |-> NoExc]
    /\ Observe
    /\ UNCHANGED <<pc, it, stdout>>

\* def login(): pass
CallLogin ==
    /\ Callable("login")
    /\ last' = [op |-> "login", arg |-> NoArg, ret |-> "None", exc |-> NoExc]
    /\ Observe
    /\ UNCHANGED <<pc, globals, it, stdout>>

\* a call of validate; an exception ends the call without a return value
CallValidate(username) ==
    /\ Callable("validate")
    /\ last' = [op |-> "validate", arg |-> username,
                ret |-> validate(username).ret, exc |-> validate(username).exc]
    /\ Observe
    /\ UNCHANGED <<pc, globals, it, stdout>>

\* what fake_auth would do if a failed validation were remembered
CallFakeAuthAfterFailure ==
    /\ Callable("fake_auth")
    /\ last' = [op |-> "fake_auth", arg |-> NoArg,
                ret |-> PyBool(fake_auth /\ last.exc = NoExc), exc |-> NoExc]
    /\ Observe
    /\ UNCHANGED <<pc, globals, it, stdout>>

\* def fake_auth(): return True
CallFakeAuth ==
    /\ Callable("fake_auth")
    /\ last' = [op |-> "fake_auth", arg |-> NoArg, ret |-> PyBool(fake_auth),
                exc |-> NoExc]
    /\ Observe
    /\ UNCHANGED <<pc, globals, it, stdout>>

\* what is_leap would do behind a one-entry cache that ignores its key
CallIsLeapCached(year) ==
    /\ Callable("is_leap")
    /\ last' = [op |-> "is_leap", arg |-> PyInt(year),
                ret |-> IF last.op = "is_leap" THEN last.ret
                        ELSE PyBool(is_leap(year)),
                exc |-> NoExc]
    /\ Observe
    /\ UNCHANGED <<pc, globals, it, stdout>>

\* a call of is_leap
CallIsLeap(year) ==
    /\ Callable("is_leap")
    /\ last' = [op |-> "is_leap", arg |-> PyInt(year), ret |-> PyBool(is_leap(year)),
                exc |-> NoExc]
    /\ Observe
    /\ UNCHANGED <<pc, globals, it, stdout>>

\* def greet(name): print(f"Hello, {name}")
CallGreet(name) ==
    /\ Callable("greet")
    /\ Len(stdout) < MaxOut
    /\ stdout' = Append(stdout, GreetLine(name))
    /\ last' = [op |-> "greet", arg |-> name, ret |-> "None", exc |-> NoExc]
    /\ Observe
    /\ UNCHANGED <<pc, globals, it>>

\* def old_auth(): return False
CallOldAuth ==
    /\ Callable("old_auth")
    /\ last' = [op |-> "old_auth", arg |-> NoArg, ret |-> PyBool(old_auth),
                exc |-> NoExc]
    /\ Observe
    /\ UNCHANGED <<pc, globals, it, stdout>>

CallNext ==
    \/ CallLogin
    \/ \E username \in Usernames : CallValidate(username)
    \/ CallFakeAuth
    \/ \E year \in Years : CallIsLeap(year)
    \/ \E name \in Names : CallGreet(name)
    \/ CallOldAuth

----------------------------------------------------------------------------
(* Specifications *)

\* the calls of a client of the loaded module
Init == Loaded
Next == CallNext
Spec == Init /\ [][Next]_vars

\* the execution of the module body; the interpreter runs it to the end
LoadSpec == LoadInit /\ [][LoadNext]_vars /\ WF_vars(LoadNext)

\* the import ends in the state the calls start from
LoadEndsLoaded == pc = "loaded" => Loaded

----------------------------------------------------------------------------
(* Properties *)

Abs(n) == IF n < 0 THEN -n ELSE n

\* n is divisible by d: n is an integer multiple of d
Divisible(n, d) == \E q \in -Abs(n)..Abs(n) : n = d * q

\* a username that is empty (zero-length) or absent
EmptyOrAbsent(v) == v.tag = "NoneType" \/ (v.tag = "str" /\ Len(v.chars) = 0)

NonEmptyString(v) == v.tag = "str" /\ Len(v.chars) > 0

\* the program state a call could touch besides its own outcome
Frame == <<pc, globals, it, stdout>>

C2_Original ==
    (last.op = "validate" /\ EmptyOrAbsent(last.arg)) =>
        /\ last.exc = [type |-> "ValueError", msg |-> "username required"]
        /\ last.ret = ""

\* C2 amended: validate with an empty or absent username fails inside the call
\* (it returns no value) with a ValueError whose message is "Username required"
C2_EmptyRejected ==
    (last.op = "validate" /\ EmptyOrAbsent(last.arg)) =>
        /\ last.exc = [type |-> "ValueError", msg |-> "Username required"]
        /\ last.ret = ""

C2_Witness ==
    /\ last.op = "validate" /\ last.arg = PyStr(<<>>) /\ last.exc.type = "ValueError"
    /\ earlier.op = "validate" /\ earlier.arg = PyNone
    /\ earlier.exc.type = "ValueError"

\* C3: for every non-empty string, whitespace-only ones included, a call of
\* validate raises nothing, returns None and changes nothing else
C3_NonEmptyAccepted ==
    [][(last'.op = "validate" /\ NonEmptyString(last'.arg)) =>
            /\ last'.exc = NoExc
            /\ last'.ret = "None"
            /\ Frame' = Frame]_vars

C3_Witness ==
    /\ last.op = "validate" /\ last.arg = PyStr(<<" ">>)
    /\ last.exc = NoExc /\ last.ret = "None"

\* C4: for every integer y, positive, zero or negative, the result of a call
\* is_leap(y) is the value of is_leap at y + 400 (and so at y - 400)
C4_Period400 ==
    last.op = "is_leap" =>
        /\ last.ret = PyBool(is_leap(last.arg.n + 400))
        /\ last.ret = PyBool(is_leap(last.arg.n - 400))

C4_Witness ==
    /\ last.op = "is_leap" /\ last.arg.n = -4 /\ last.ret = "True"
    /\ earlier.op = "is_leap" /\ earlier.arg.n = 0 /\ earlier.ret = "True"

C6_Pure ==
    [][last'.op = "is_leap" =>
            /\ Frame' = Frame
            /\ (earlier'.op = "is_leap" /\ earlier'.arg = last'.arg) =>
                    (earlier'.ret = last'.ret /\ earlier'.exc = last'.exc)]_vars

C6_Witness ==
    /\ last.op = "is_leap" /\ earlier.op = "is_leap"
    /\ earlier.arg = last.arg /\ last.arg.n = 400
    /\ stdout # <<>>

C8_Original == DOMAIN globals \subseteq FunctionNames

\* C8 amended: the loaded module holds, besides its six functions, one
\* module-level variable, the loop variable i, left at 999999 by the load;
\* after the load no call creates or changes a module-level variable, the only
\* output is the line greet prints, and a call's outcome is that of an earlier
\* call of the same operation with the same argument
C8_NoStateAcrossCalls ==
    [][/\ globals' = globals /\ pc' = pc /\ it' = it
       /\ DOMAIN globals' = FunctionNames \cup {"i"}
       /\ globals'["i"] = RangeStop - 1
       /\ stdout' # stdout =>
            (last'.op = "greet" /\ stdout' = Append(stdout, GreetLine(last'.arg)))
       /\ (earlier'.op = last'.op /\ earlier'.arg = last'.arg) =>
            (earlier'.ret = last'.ret /\ earlier'.exc = last'.exc)]_vars

C8_Witness ==
    /\ pc = "loaded" /\ globals["i"] = RangeStop - 1
    /\ last.op = "validate" /\ earlier.op = "validate" /\ earlier.arg = last.arg
    /\ stdout # <<>>

\* C9: fake_auth returns True on every call and old_auth False on every call,
\* after any earlier calls; login returns None and changes nothing
C9_ConstantAuth ==
    [][/\ last'.op = "fake_auth" => (last'.ret = "True" /\ last'.exc = NoExc)
       /\ last'.op = "old_auth" => (last'.ret = "False" /\ last'.exc = NoExc)
       /\ last'.op \in {"fake_auth", "old_auth", "login"} => Frame' = Frame
       /\ last'.op = "login" => (last'.ret = "None" /\ last'.exc = NoExc)]_vars

C9_Witness ==
    /\ last.op = "fake_auth" /\ last.ret = "True"
    /\ earlier.op = "validate" /\ earlier.exc.type = "ValueError"

LoopDefined == {"login", "validate", "fake_auth", "is_leap", "greet"}

\* C10: loading the module terminates; the loop runs exactly 1,000,000
\* iterations with i going from 0 to 999999, after login, validate, fake_auth,
\* is_leap and greet are defined and before old_auth is, so old_auth is bound
\* only once the loop has finished
C10_LoadTerminates ==
    /\ <>(pc = "loaded")
    /\ [](/\ pc = "for" =>
                /\ LoopDefined \subseteq DOMAIN globals
                /\ "old_auth" \notin DOMAIN globals
          /\ "i" \in DOMAIN globals => (globals["i"] = it - 1 /\ it >= 1)
          /\ "old_auth" \in DOMAIN globals =>
                /\ it = RangeStop
                /\ globals["i"] = RangeStop - 1
                /\ pc = "loaded"
          /\ it \in 0..RangeStop
          /\ LoadEndsLoaded)
    /\ [][/\ it' \in {it, it + 1}
          /\ (pc = "for" /\ pc' # "for") => (it = RangeStop /\ pc' = "def_old_auth")]_vars

C10_Witness ==
    /\ pc = "loaded"
    /\ "old_auth" \in DOMAIN globals
    /\ it = RangeStop
    /\ globals["i"] = RangeStop - 1

====
